---- MODULE Spec2Model ----
(***************************************************************************)
(* The taxi-fare feature pipeline of the notebooks: the record parser, the *)
(* feature engineer, the feature columns and the serving input function    *)
(* (FeatureSpec), and the tf.data batch assembler built by train_input_fn  *)
(* and eval_input_fn (Spec); parse_row on lines of any shape (ParserSpec), *)
(* single feature columns (ColumnSpec), the train cell (RunSpec), the two  *)
(* pipelines of train_and_evaluate side by side (PairSpec), prediction     *)
(* (PredictSpec) and the entry point task.py (TaskSpec).                   *)
(*                                                                         *)
(* Numbers.  Latitudes and longitudes are fixed-point integers in units of *)
(* 1/300 degree, the coarsest unit in which both the 16 linspace           *)
(* boundaries (38 + 4i/15) and two-decimal coordinates are whole numbers.  *)
(* latdiff and londiff are in the same unit; euclidean_dist is in units of *)
(* 1/30000 degree.  Fares are in cents.  The float32 rounding of the       *)
(* tensors is not modelled.                                                *)
(***************************************************************************)
EXTENDS Integers, Sequences, FiniteSets, TLC

VARIABLES
    \* ---- feature path (FeatureSpec)
    raw,                  \* the CSV row under consideration: 7 fields
    path,                 \* which construction is running
    pc,                   \* its position
    heap,                 \* the Python dict objects, by identity
    features,             \* the object the local name `features` is bound to
    element,              \* per path: the (features, label) parse_row returned
    vec,                  \* per path: the feature vector handed to the model
    receiver_tensors,     \* what ServingInputReceiver got as receiver_tensors
    \* ---- batch assembler (Spec)
    files,                \* the files matched by csv_path: lines per file
    mode,                 \* "train" | "eval"
    batch_size,
    state,                \* "Idle" | "Streaming" | "Exhausted"
    it,                   \* the iterator over the current pass of the source
    batches,              \* every batch emitted so far, in emission order
    last,                 \* what the last pull yielded
    pulls,                \* number of pulls so far
    \* ---- feature columns on their own (ColumnSpec)
    col_in,               \* the column under consideration and two inputs to it
    col_out,              \* the dense blocks the column gave for the two inputs
    \* ---- training runs (RunSpec)
    run,                  \* position of the notebook's train cell
    model_dir,            \* OUTDIR: the global step of its latest checkpoint
    global_step,          \* the estimator's global step
    start_step,           \* the global step the current training started at
    last_step,            \* the global step at which the current training stops
    runs,                 \* executions of the train cell completed so far
    exporter,             \* the exporter given to EvalSpec, if any
    exports,              \* the global steps at which a SavedModel was written
    \* ---- two pipelines side by side (PairSpec)
    instances,            \* per input_fn call: the state of the pipeline it built
    \* ---- prediction (PredictSpec)
    df,                   \* the rows of the DataFrame given to predict_input_fn
    preds_evaluated,      \* the predictions of the last batch not yet yielded
    predictions,          \* what the generator of model.predict has yielded
    \* ---- the entry point task.py (TaskSpec)
    argv,                 \* the command line: option |-> value
    args,                 \* parser.parse_args().__dict__
    task_pc,              \* position of task.py
    params                \* what model.train_and_evaluate was called with

featVars == <<raw, path, pc, heap, features, element, vec, receiver_tensors>>
pipeVars == <<files, mode, batch_size, state, it, batches, last, pulls>>
colVars == <<col_in, col_out>>
runVars == <<run, model_dir, global_step, start_step, last_step, runs, exporter, exports>>
pairVars == <<instances>>
predictVars == <<df, preds_evaluated, predictions>>
taskVars == <<argv, args, task_pc, params>>
otherVars == <<instances, df, preds_evaluated, predictions, argv, args, task_pc, params>>
vars == <<raw, path, pc, heap, features, element, vec, receiver_tensors,
          files, mode, batch_size, state, it, batches, last, pulls,
          col_in, col_out, run, model_dir, global_step, start_step, last_step, runs,
          exporter, exports, instances, df, preds_evaluated, predictions,
          argv, args, task_pc, params>>

(***************************************************************************)
(* Units                                                                   *)
(***************************************************************************)
Degrees(d) == d * 300
Hundredths(h) == h * 3

(***************************************************************************)
(* Python dictionaries                                                     *)
(***************************************************************************)
EmptyDict == [k \in {} |-> 0]

SetItem(d, k, v) == [x \in (DOMAIN d) \cup {k} |-> IF x = k THEN v ELSE d[x]]

\* A pop that leaves the key in the dict.
Pop_keeps_key(d, k) == d

Pop(d, k) == [x \in (DOMAIN d) \ {k} |-> d[x]]

(***************************************************************************)
(* The schema                                                              *)
(***************************************************************************)
CSV_COLUMN_NAMES ==
    <<"fare_amount", "dayofweek", "hourofday",
      "pickuplon", "pickuplat", "dropofflon", "dropofflat">>

CSV_DEFAULTS ==
    <<0, 1, 0, Degrees(-74), Degrees(40), Degrees(-74), Hundredths(4070)>>

FEATURE_NAMES == Tail(CSV_COLUMN_NAMES)

LABEL_NAME == Head(CSV_COLUMN_NAMES)

\* A CSV field is <<v>> when present and <<>> when empty.
\* tf.decode_csv fills an empty field with its default; a record whose field
\* count differs from the number of defaults is an error.
DecodeError == "InvalidArgumentError"

decode_csv(records, record_defaults) ==
    IF Len(records) # Len(record_defaults)
    THEN DecodeError
    ELSE [i \in 1..Len(record_defaults) |->
            IF Len(records[i]) = 0 THEN record_defaults[i] ELSE records[i][1]]

\* Whether tf.decode_csv raises for the record: "Expect n fields but have m".
decode_csv_raises(records, record_defaults) == Len(records) # Len(record_defaults)

\* A parser that packs dayofweek as a zero-based day.
DictZip_zero_based_day(names, fields) ==
    [k \in {names[i] : i \in 1..Len(names)} |->
        IF k = "dayofweek"
        THEN fields[CHOOSE i \in 1..Len(names) : names[i] = k] - 1
        ELSE fields[CHOOSE i \in 1..Len(names) : names[i] = k]]

\* dict(zip(CSV_COLUMN_NAMES, fields))
DictZip(names, fields) ==
    [k \in {names[i] : i \in 1..Len(names)} |->
        fields[CHOOSE i \in 1..Len(names) : names[i] = k]]

(***************************************************************************)
(* Feature engineering                                                     *)
(***************************************************************************)
RECURSIVE SqrtSearch(_, _, _)
SqrtSearch(n, lo, hi) ==
    IF lo >= hi THEN lo
    ELSE LET mid == (lo + hi + 1) \div 2
         IN IF mid * mid <= n THEN SqrtSearch(n, mid, hi)
                              ELSE SqrtSearch(n, lo, mid - 1)

\* tf.sqrt of a squared distance x in (1/300 degree)^2, to 1/30000 degree:
\* the largest d with d*d <= x * 100^2.
tf_sqrt(x) ==
    LET n == x * 10000
    IN SqrtSearch(n, 0, IF n < 46340 THEN n ELSE 46340)

add_engineered_features_raw_day(f) ==
    LET f2 == SetItem(f, "latdiff", f["pickuplat"] - f["dropofflat"])
        f3 == SetItem(f2, "londiff", f2["pickuplon"] - f2["dropofflon"])
    IN SetItem(f3, "euclidean_dist",
               tf_sqrt(f3["latdiff"] * f3["latdiff"] + f3["londiff"] * f3["londiff"]))

add_engineered_features_swapped(f) ==
    LET f1 == SetItem(f, "dayofweek", f["dayofweek"] - 1)
        f2 == SetItem(f1, "latdiff", f1["dropofflat"] - f1["pickuplat"])
        f3 == SetItem(f2, "londiff", f2["pickuplon"] - f2["dropofflon"])
    IN SetItem(f3, "euclidean_dist",
               tf_sqrt(f3["latdiff"] * f3["latdiff"] + f3["londiff"] * f3["londiff"]))

add_engineered_features_skewed(f) ==
    LET f1 == SetItem(f, "dayofweek", IF path = "eval" THEN f["dayofweek"]
                                                       ELSE f["dayofweek"] - 1)
        f2 == SetItem(f1, "latdiff", f1["pickuplat"] - f1["dropofflat"])
        f3 == SetItem(f2, "londiff", f2["pickuplon"] - f2["dropofflon"])
    IN SetItem(f3, "euclidean_dist",
               tf_sqrt(f3["latdiff"] * f3["latdiff"] + f3["londiff"] * f3["londiff"]))

\* The new contents of the dict the function was given: it assigns into its
\* argument and returns that same object.
add_engineered_features(f) ==
    LET f1 == SetItem(f, "dayofweek", f["dayofweek"] - 1)
        f2 == SetItem(f1, "latdiff", f1["pickuplat"] - f1["dropofflat"])
        f3 == SetItem(f2, "londiff", f2["pickuplon"] - f2["dropofflon"])
    IN SetItem(f3, "euclidean_dist",
               tf_sqrt(f3["latdiff"] * f3["latdiff"] + f3["londiff"] * f3["londiff"]))

(***************************************************************************)
(* Feature columns                                                         *)
(***************************************************************************)
NBUCKETS == 16

num_feature_columns == 168 + (16 + 1) * 4 + 3

\* np.linspace(start, stop, num): num evenly spaced values, both ends included.
linspace(start, stop, num) ==
    [i \in 1..num |-> start + ((i - 1) * (stop - start)) \div (num - 1)]

latbuckets == linspace(Degrees(38), Degrees(42), NBUCKETS)

lonbuckets == linspace(Degrees(-76), Degrees(-72), NBUCKETS)

\* A column name is kept as its parts: <<key>>, <<key, "_bucketized">>,
\* <<key1, "_X_", key2, "_indicator">>.
numeric_column(key) ==
    [kind |-> "numeric", name |-> <<key>>, key |-> key]

bucketized_column_no_overflow(source_column, boundaries) ==
    [kind |-> "bucketized", name |-> <<source_column.key, "_bucketized">>,
     key |-> source_column.key, boundaries |-> boundaries,
     width |-> Len(boundaries)]

bucketized_column(source_column, boundaries) ==
    [kind |-> "bucketized", name |-> <<source_column.key, "_bucketized">>,
     key |-> source_column.key, boundaries |-> boundaries,
     width |-> Len(boundaries) + 1]

categorical_column_with_identity(key, num_buckets) ==
    [kind |-> "identity", name |-> <<key>>, key |-> key,
     num_buckets |-> num_buckets]

crossed_column(keys, hash_bucket_size) ==
    [kind |-> "crossed",
     name |-> <<keys[1].key, "_X_", keys[2].key>>,
     keys |-> keys, hash_bucket_size |-> hash_bucket_size]

indicator_column(categorical_column) ==
    [kind |-> "indicator",
     name |-> categorical_column.name \o <<"_indicator">>,
     categorical_column |-> categorical_column,
     width |-> categorical_column.hash_bucket_size]

\* The columns as their variable names read: the "plat" and "dlat" columns
\* given the latitude boundaries and the "plon" and "dlon" columns the
\* longitude boundaries, the fields they read left as they are.
create_feature_columns_by_variable_name ==
    LET fc_dayofweek == categorical_column_with_identity("dayofweek", 7)
        fc_hourofday == categorical_column_with_identity("hourofday", 24)
        fc_day_hr == crossed_column(<<fc_dayofweek, fc_hourofday>>, 24 * 7)
        fc_bucketized_plat ==
            bucketized_column(numeric_column("pickuplon"), latbuckets)
        fc_bucketized_plon ==
            bucketized_column(numeric_column("pickuplat"), lonbuckets)
        fc_bucketized_dlat ==
            bucketized_column(numeric_column("dropofflon"), latbuckets)
        fc_bucketized_dlon ==
            bucketized_column(numeric_column("dropofflat"), lonbuckets)
    IN << indicator_column(fc_day_hr),
          fc_bucketized_plat,
          fc_bucketized_plon,
          fc_bucketized_dlat,
          fc_bucketized_dlon,
          numeric_column("latdiff"),
          numeric_column("londiff"),
          numeric_column("euclidean_dist") >>

create_feature_columns ==
    LET fc_dayofweek == categorical_column_with_identity("dayofweek", 7)
        fc_hourofday == categorical_column_with_identity("hourofday", 24)
        fc_day_hr == crossed_column(<<fc_dayofweek, fc_hourofday>>, 24 * 7)
        fc_bucketized_plat ==
            bucketized_column(numeric_column("pickuplon"), lonbuckets)
        fc_bucketized_plon ==
            bucketized_column(numeric_column("pickuplat"), latbuckets)
        fc_bucketized_dlat ==
            bucketized_column(numeric_column("dropofflon"), lonbuckets)
        fc_bucketized_dlon ==
            bucketized_column(numeric_column("dropofflat"), latbuckets)
    IN << indicator_column(fc_day_hr),
          fc_bucketized_plat,
          fc_bucketized_plon,
          fc_bucketized_dlat,
          fc_bucketized_dlon,
          numeric_column("latdiff"),
          numeric_column("londiff"),
          numeric_column("euclidean_dist") >>

\* The simple variant: one numeric column per raw feature name.
feature_columns == [i \in 1..Len(FEATURE_NAMES) |-> numeric_column(FEATURE_NAMES[i])]

ColumnWidth(c) == IF c.kind = "numeric" THEN 1 ELSE c.width

RECURSIVE SumWidths(_)
SumWidths(cols) ==
    IF cols = <<>> THEN 0 ELSE ColumnWidth(Head(cols)) + SumWidths(Tail(cols))

(***************************************************************************)
(* tf.feature_column.input_layer                                           *)
(***************************************************************************)
\* Python's order of the column names in use.  No leading key is a prefix of
\* another, so the leading key decides the order of two names.
NameOrder ==
    <<"dayofweek", "dropofflat", "dropofflon", "euclidean_dist", "hourofday",
      "latdiff", "londiff", "pickuplat", "pickuplon">>

NameRank(c) == CHOOSE i \in 1..Len(NameOrder) : NameOrder[i] = c.name[1]

\* sorted(feature_columns, key = lambda x: x.name)
SortedByName(cols) ==
    LET n == Len(cols)
        Before(i) == Cardinality({j \in 1..n : NameRank(cols[j]) < NameRank(cols[i])})
    IN [r \in 1..n |-> cols[CHOOSE i \in 1..n : Before(i) = r - 1]]

\* A thermometer code: every position up to the index holds a 1.
OneHot_thermometer(width, index) == [i \in 1..width |-> IF i <= index + 1 THEN 1 ELSE 0]

OneHot(width, index) == [i \in 1..width |-> IF i = index + 1 THEN 1 ELSE 0]

\* A bucketizer that gives no bucket to a value outside the boundaries.
Bucketize_no_clamp(v, boundaries) ==
    IF v < boundaries[1] THEN -1
    ELSE IF v > boundaries[Len(boundaries)] THEN Len(boundaries) + 1
    ELSE Cardinality({i \in 1..Len(boundaries) : boundaries[i] <= v})

\* A bucketizer that puts a value equal to a boundary in the bucket below it.
Bucketize_boundary_below(v, boundaries) ==
    Cardinality({i \in 1..Len(boundaries) : boundaries[i] < v})

\* The Bucketize op: the bucket of v is the number of boundaries <= v.
Bucketize(v, boundaries) ==
    Cardinality({i \in 1..Len(boundaries) : boundaries[i] <= v})

\* The hashed cross of two integer ids.  TensorFlow takes a 64-bit fingerprint
\* of the pair modulo the bucket count; this fixed mixing function stands for
\* it: deterministic, the same on every path, and not designed to be injective.
SparseCrossHash(a, b, num_buckets) ==
    (((a + 1) * 2654435 + (b + 1) * 40503 + 12345) % 65521) % num_buckets

\* An identity column raises InvalidArgumentError for an id outside
\* [0, num_buckets); the crossed column reads its two identity columns.
ColumnFails(c, f) ==
    /\ c.kind = "indicator"
    /\ \E i \in 1..Len(c.categorical_column.keys) :
          LET k == c.categorical_column.keys[i]
          IN f[k.key] \notin 0..(k.num_buckets - 1)

\* The dense block of one column for one record.
DenseBlock(c, f) ==
    IF c.kind = "numeric" THEN <<f[c.key]>>
    ELSE IF c.kind = "bucketized"
    THEN OneHot(c.width, Bucketize(f[c.key], c.boundaries))
    ELSE LET x == c.categorical_column
         IN OneHot(c.width,
                   SparseCrossHash(f[x.keys[1].key], f[x.keys[2].key],
                                   x.hash_bucket_size))

RECURSIVE ConcatBlocks(_, _)
ConcatBlocks(cols, f) ==
    IF cols = <<>> THEN <<>>
    ELSE DenseBlock(Head(cols), f) \o ConcatBlocks(Tail(cols), f)

\* The row of the input layer for one record: the blocks of the columns in
\* the order of their names; no tensor (<<>>) when a column raises.
input_layer(f, cols) ==
    LET sorted == SortedByName(cols)
    IN IF \E i \in 1..Len(sorted) : ColumnFails(sorted[i], f)
       THEN <<>>
       ELSE ConcatBlocks(sorted, f)

\* create_feature_keras_input: the features of (features, label).
create_feature_keras_input(f) == input_layer(f, create_feature_columns)

(***************************************************************************)
(* FeatureSpec: one raw record taken through the training path, the        *)
(* evaluation path and the serving path of the richer variant, and through *)
(* the parser and the columns of the simple variant.                       *)
(***************************************************************************)
FareValues == {0, 1000}
DayValues == 1..7
HourValues == {0, 14, 23}
LonValues == {Degrees(-74), Hundredths(-7399), Hundredths(-7398)}
LatValues == {Degrees(40), Hundredths(4073), Hundredths(4075)}

RawRows ==
    {<< <<fare>>, <<day>>, <<hour>>, <<plon>>, <<plat>>, <<dlon>>, <<dlat>> >> :
        fare \in FareValues, day \in DayValues, hour \in HourValues,
        plon \in LonValues, plat \in LatValues,
        dlon \in LonValues, dlat \in LatValues}

Paths == {"train", "eval", "serve", "simple"}

NextPath(p) ==
    CASE p = "train" -> "eval"
      [] p = "eval" -> "serve"
      [] p = "serve" -> "simple"
      [] OTHER -> "done"

NoObject == "None"

NoCheckpoint == -1

ColIdle ==
    /\ col_in = <<>>
    /\ col_out = <<>>

RunIdle ==
    /\ run = "idle"
    /\ model_dir = NoCheckpoint
    /\ global_step = 0
    /\ start_step = 0
    /\ last_step = 0
    /\ runs = 0
    /\ exporter = NoObject
    /\ exports = <<>>

PairIdle ==
    instances = <<>>

PredictIdle ==
    /\ df = <<>>
    /\ preds_evaluated = <<>>
    /\ predictions = <<>>

TaskIdle ==
    /\ argv = <<>>
    /\ args = <<>>
    /\ task_pc = "none"
    /\ params = <<>>

OtherIdle ==
    /\ PairIdle
    /\ PredictIdle
    /\ TaskIdle

PipeIdle ==
    /\ files = <<>>
    /\ mode = "none"
    /\ batch_size = 0
    /\ state = "Idle"
    /\ it = <<>>
    /\ batches = <<>>
    /\ last = <<>>
    /\ pulls = 0

FeatureInit ==
    /\ raw \in RawRows
    /\ path = "train"
    /\ pc = "start"
    /\ heap = [o \in {"row_dict", "placeholder_dict", "comprehension_dict"} |-> EmptyDict]
    /\ features = NoObject
    /\ element = [p \in Paths |-> <<>>]
    /\ vec = [p \in Paths |-> <<>>]
    /\ receiver_tensors = EmptyDict
    /\ PipeIdle
    /\ ColIdle
    /\ RunIdle
    /\ OtherIdle

\* parse_row, lines 77-80: decode the row and pack it into a new dict; when
\* tf.decode_csv raises, the error ends the pass over the dataset.
ParseRowDecode ==
    /\ path \in {"train", "eval"}
    /\ pc = "start"
    /\ IF decode_csv_raises(raw, CSV_DEFAULTS)
       THEN /\ pc' = "error"
            /\ UNCHANGED <<heap, features>>
       ELSE /\ heap' = [heap EXCEPT !["row_dict"] =
                           DictZip(CSV_COLUMN_NAMES, decode_csv(raw, CSV_DEFAULTS))]
            /\ features' = "row_dict"
            /\ pc' = "packed"
    /\ UNCHANGED <<raw, path, element, vec, receiver_tensors>>
    /\ UNCHANGED pipeVars
    /\ UNCHANGED colVars
    /\ UNCHANGED otherVars
    /\ UNCHANGED runVars

\* The call add_engineered_features(features), from parse_row (line 83) and from
\* serving_input_fn (line 282): the dict passed is updated in place.
AddEngineeredFeatures ==
    /\ path \in {"train", "eval", "serve"}
    /\ pc = "packed"
    /\ heap' = [heap EXCEPT ![features] = add_engineered_features(heap[features])]
    /\ pc' = "engineered"
    /\ UNCHANGED <<raw, path, features, element, vec, receiver_tensors>>
    /\ UNCHANGED pipeVars
    /\ UNCHANGED colVars
    /\ UNCHANGED otherVars
    /\ UNCHANGED runVars

\* parse_row, lines 86-88: pop the label and return (features, label).
ParseRowReturn ==
    /\ path \in {"train", "eval"}
    /\ pc = "engineered"
    /\ LET label == heap[features]["fare_amount"]
           popped == Pop(heap[features], "fare_amount")
       IN /\ heap' = [heap EXCEPT ![features] = popped]
          /\ element' = [element EXCEPT ![path] = <<popped, label>>]
    /\ pc' = "parsed"
    /\ UNCHANGED <<raw, path, features, vec, receiver_tensors>>
    /\ UNCHANGED pipeVars
    /\ UNCHANGED colVars
    /\ UNCHANGED otherVars
    /\ UNCHANGED runVars

\* create_feature_keras_input mapped over the dataset by train_input_fn and
\* eval_input_fn.
CreateFeatureKerasInput ==
    /\ path \in {"train", "eval"}
    /\ pc = "parsed"
    /\ vec' = [vec EXCEPT ![path] = create_feature_keras_input(element[path][1])]
    /\ path' = NextPath(path)
    /\ pc' = "start"
    /\ features' = NoObject
    /\ UNCHANGED <<raw, heap, element, receiver_tensors>>
    /\ UNCHANGED pipeVars
    /\ UNCHANGED colVars
    /\ UNCHANGED otherVars
    /\ UNCHANGED runVars

\* The object serving_input_fn binds to `features` at line 279.
serving_features_alias == "placeholder_dict"

serving_features_object == "comprehension_dict"

\* The six placeholders, fed with the request's raw values.
feature_placeholders_latlon_swapped(row) ==
    [k \in {"dayofweek", "hourofday", "pickuplon", "pickuplat", "dropofflon", "dropofflat"} |->
        CASE k = "dayofweek" -> row[2][1]
          [] k = "hourofday" -> row[3][1]
          [] k = "pickuplon" -> row[5][1]
          [] k = "pickuplat" -> row[4][1]
          [] k = "dropofflon" -> row[7][1]
          [] k = "dropofflat" -> row[6][1]]

feature_placeholders(row) ==
    [k \in {"dayofweek", "hourofday", "pickuplon", "pickuplat", "dropofflon", "dropofflat"} |->
        row[CHOOSE i \in 1..Len(CSV_COLUMN_NAMES) : CSV_COLUMN_NAMES[i] = k][1]]

\* serving_input_fn, lines 270-279.
ServingPlaceholders ==
    /\ path = "serve"
    /\ pc = "start"
    /\ LET ph == feature_placeholders(raw)
       IN heap' = [heap EXCEPT !["placeholder_dict"] = ph,
                               !["comprehension_dict"] = [k \in DOMAIN ph |-> ph[k]]]
    /\ features' = serving_features_object
    /\ pc' = "packed"
    /\ UNCHANGED <<raw, path, element, vec, receiver_tensors>>
    /\ UNCHANGED pipeVars
    /\ UNCHANGED colVars
    /\ UNCHANGED otherVars
    /\ UNCHANGED runVars

\* The object serving_input_fn passes as receiver_tensors at line 284.
serving_receiver_features == "comprehension_dict"

serving_receiver_object == "placeholder_dict"

\* serving_input_fn, lines 282-284.
ServingInputReceiver ==
    /\ path = "serve"
    /\ pc = "engineered"
    /\ vec' = [vec EXCEPT !["serve"] = create_feature_keras_input(heap[features])]
    /\ receiver_tensors' = heap[serving_receiver_object]
    /\ path' = NextPath(path)
    /\ pc' = "start"
    /\ features' = NoObject
    /\ UNCHANGED <<raw, heap, element>>
    /\ UNCHANGED pipeVars
    /\ UNCHANGED colVars
    /\ UNCHANGED otherVars
    /\ UNCHANGED runVars

\* parse_row of the simple variant: decode, pack, pop the label; when
\* tf.decode_csv raises, the error ends the pass over the dataset.
SimpleParseRow ==
    /\ path = "simple"
    /\ pc = "start"
    /\ IF decode_csv_raises(raw, CSV_DEFAULTS)
       THEN /\ pc' = "error"
            /\ UNCHANGED <<heap, features, element>>
       ELSE /\ LET d == DictZip(CSV_COLUMN_NAMES, decode_csv(raw, CSV_DEFAULTS))
               IN /\ heap' = [heap EXCEPT !["row_dict"] = Pop(d, LABEL_NAME)]
                  /\ element' = [element EXCEPT !["simple"] =
                                     <<Pop(d, LABEL_NAME), d[LABEL_NAME]>>]
            /\ features' = "row_dict"
            /\ pc' = "parsed"
    /\ UNCHANGED <<raw, path, vec, receiver_tensors>>
    /\ UNCHANGED pipeVars
    /\ UNCHANGED colVars
    /\ UNCHANGED otherVars
    /\ UNCHANGED runVars

\* The estimator's input layer over the simple variant's numeric columns.
SimpleInputLayer ==
    /\ path = "simple"
    /\ pc = "parsed"
    /\ vec' = [vec EXCEPT !["simple"] = input_layer(element["simple"][1], feature_columns)]
    /\ pc' = "trained"
    /\ features' = NoObject
    /\ UNCHANGED <<raw, path, heap, element, receiver_tensors>>
    /\ UNCHANGED pipeVars
    /\ UNCHANGED colVars
    /\ UNCHANGED otherVars
    /\ UNCHANGED runVars

\* serving_input_receiver_fn of the simple variant: six placeholders, and
\* features is the receiver_tensors dict itself (no engineering).
SimpleServingInputReceiver ==
    /\ path = "simple"
    /\ pc = "trained"
    /\ heap' = [heap EXCEPT !["placeholder_dict"] = feature_placeholders(raw)]
    /\ receiver_tensors' = feature_placeholders(raw)
    /\ path' = NextPath(path)
    /\ pc' = "start"
    /\ features' = NoObject
    /\ UNCHANGED <<raw, element, vec>>
    /\ UNCHANGED pipeVars
    /\ UNCHANGED colVars
    /\ UNCHANGED otherVars
    /\ UNCHANGED runVars

FeatureNext ==
    \/ ParseRowDecode
    \/ AddEngineeredFeatures
    \/ ParseRowReturn
    \/ CreateFeatureKerasInput
    \/ ServingPlaceholders
    \/ ServingInputReceiver
    \/ SimpleParseRow
    \/ SimpleInputLayer
    \/ SimpleServingInputReceiver

FeatureSpec == FeatureInit /\ [][FeatureNext]_vars

(***************************************************************************)
(* Properties of the feature path (checked under FeatureSpec)              *)
(***************************************************************************)
\* The record "10.0,3,14,-73.99,40.75,-73.98,40.73".
ExampleRow ==
    << <<1000>>, <<3>>, <<14>>, <<Hundredths(-7399)>>, <<Hundredths(4075)>>,
       <<Hundredths(-7398)>>, <<Hundredths(4073)>> >>

RawField(name) ==
    raw[CHOOSE i \in 1..Len(CSV_COLUMN_NAMES) : CSV_COLUMN_NAMES[i] = name][1]

Finished(p) ==
    CASE p = "train" -> path \in {"eval", "serve", "simple", "done"}
      [] p = "eval" -> path \in {"serve", "simple", "done"}
      [] p = "serve" -> path \in {"simple", "done"}
      [] OTHER -> path = "done"

\* C1: for every combination of the six raw fields, the training path, the
\* evaluation path and the serving path build the same feature vector: the
\* same width, the same order of fields, the same values.
C1_SameVectorOnEveryPath ==
    /\ Finished("train") => Len(vec["train"]) = num_feature_columns
    /\ Finished("eval") => vec["eval"] = vec["train"]
    /\ Finished("serve") => vec["serve"] = vec["train"]

C1_Witness ==
    /\ raw = ExampleRow
    /\ Finished("serve")
    /\ Len(vec["serve"]) = num_feature_columns
    /\ vec["serve"] = vec["train"]
    /\ vec["serve"] = vec["eval"]

\* C6: for every valid raw record (dayofweek in 1..7, hourofday in 0..23), after
\* add_engineered_features the dayofweek feature is the raw dayofweek minus 1
\* and lies in 0..6, and hourofday is the raw hourofday and lies in 0..23.
C6_DayZeroBasedHourKept ==
    (pc = "engineered" /\ RawField("dayofweek") \in 1..7 /\ RawField("hourofday") \in 0..23)
    => /\ heap[features]["dayofweek"] = RawField("dayofweek") - 1
       /\ heap[features]["dayofweek"] \in 0..6
       /\ heap[features]["hourofday"] = RawField("hourofday")
       /\ heap[features]["hourofday"] \in 0..23

C6_Witness ==
    /\ pc = "engineered"
    /\ path = "train"
    /\ RawField("dayofweek") = 7
    /\ RawField("hourofday") = 23
    /\ heap[features]["dayofweek"] = 6
    /\ heap[features]["hourofday"] = 23

\* C7: for every record, add_engineered_features sets latdiff = pickuplat -
\* dropofflat, londiff = pickuplon - dropofflon and euclidean_dist =
\* sqrt(latdiff^2 + londiff^2): euclidean_dist >= 0 and its square is
\* latdiff^2 + londiff^2 to the resolution of the result (1/30000 degree);
\* the example record gives latdiff = 0.02 and londiff = -0.01.
C7_DiffsAndDistance ==
    pc = "engineered"
    => LET f == heap[features]
           sq == f["latdiff"] * f["latdiff"] + f["londiff"] * f["londiff"]
           d == f["euclidean_dist"]
       IN /\ f["latdiff"] = RawField("pickuplat") - RawField("dropofflat")
          /\ f["londiff"] = RawField("pickuplon") - RawField("dropofflon")
          /\ d >= 0
          /\ d * d <= sq * 10000
          /\ sq * 10000 < (d + 1) * (d + 1)
          /\ raw = ExampleRow => /\ f["latdiff"] = Hundredths(2)
                                 /\ f["londiff"] = Hundredths(-1)

C7_Witness ==
    /\ pc = "engineered"
    /\ raw = ExampleRow
    /\ heap[features]["latdiff"] = Hundredths(2)
    /\ heap[features]["londiff"] = Hundredths(-1)
    /\ heap[features]["euclidean_dist"] = 670

C9_ArgumentLeftUnchanged ==
    [][(pc = "packed" /\ pc' = "engineered") => heap'[features] = heap[features]]_vars

\* C9, amended: add_engineered_features updates the mapping it is given in
\* place: it overwrites dayofweek with dayofweek - 1 and adds latdiff, londiff
\* and euclidean_dist; it leaves every other field of that mapping unchanged
\* and touches no other state; serving_input_fn hands it a copy, so the
\* feature_placeholders keep the raw inputs.
C9_UpdatesOnlyItsArgument ==
    [][(pc = "packed" /\ pc' = "engineered") =>
          /\ DOMAIN heap'[features] =
                (DOMAIN heap[features]) \cup {"latdiff", "londiff", "euclidean_dist"}
          /\ heap'[features]["dayofweek"] = heap[features]["dayofweek"] - 1
          /\ \A k \in (DOMAIN heap[features]) \ {"dayofweek"} :
                heap'[features][k] = heap[features][k]
          /\ \A o \in (DOMAIN heap) \ {features} : heap'[o] = heap[o]
          /\ heap'["placeholder_dict"] = heap["placeholder_dict"]
          /\ UNCHANGED <<raw, path, features, element, vec, receiver_tensors>>
          /\ UNCHANGED pipeVars
          /\ UNCHANGED colVars
          /\ UNCHANGED otherVars
          /\ UNCHANGED runVars]_vars

C9_Witness ==
    /\ path = "serve"
    /\ pc = "engineered"
    /\ heap[features]["dayofweek"] = RawField("dayofweek") - 1
    /\ "latdiff" \in DOMAIN heap[features]
    /\ heap["placeholder_dict"]["dayofweek"] = RawField("dayofweek")
    /\ "latdiff" \notin DOMAIN heap["placeholder_dict"]

\* C10: the feature vector has a fixed width for every record: 239 in the
\* richer variant, which is the sum of the widths of the columns of
\* create_feature_columns and num_feature_columns = 168 + 17*4 + 3, the input
\* width of the Keras model; 6 in the simple variant, one numeric column per
\* name in FEATURE_NAMES.
C10_FixedWidth ==
    /\ num_feature_columns = 239
    /\ SumWidths(create_feature_columns) = num_feature_columns
    /\ \A p \in {"train", "eval", "serve"} :
          Finished(p) => Len(vec[p]) = num_feature_columns
    /\ Len(feature_columns) = Len(FEATURE_NAMES)
    /\ SumWidths(feature_columns) = 6
    /\ Finished("simple") => Len(vec["simple"]) = 6

C10_Witness ==
    /\ path = "done"
    /\ Len(vec["train"]) = 239
    /\ Len(vec["serve"]) = 239
    /\ Len(vec["simple"]) = 6

(***************************************************************************)
(* Spec: the batch assembler.  read_dataset over the files matched by       *)
(* csv_path, then shuffle / repeat / batch (train_input_fn) or batch alone *)
(* (eval_input_fn), pulled by a consumer one batch at a time.  A record is *)
(* <<file, line>>; parse_row and create_feature_keras_input are mapped     *)
(* element by element and keep no state, so a batch is given by the        *)
(* records in it.                                                          *)
(***************************************************************************)
\* lines of a file, the header included
MaxLines == 4

\* batch sizes 1..MaxBatch
MaxBatch == 2

\* pulls of a train-mode pipeline
MaxTrainPulls == 2

\* the shuffle buffer; stands for buffer_size = 1000
ShuffleBuffer == 2

\* csv_path matches one file or two.
FileCounts == {1, 2}

Min(a, b) == IF a < b THEN a ELSE b

\* The permutations of 1..n.
FileOrders(n) ==
    {p \in [1..n -> 1..n] : \A i, j \in 1..n : i # j => p[i] # p[j]}

\* tf.data.Dataset.list_files(file_pattern): the matched file names, shuffled
\* (shuffle defaults to True): any order of the files.
list_files == FileOrders(Len(files))

\* skip(count = 1) applied once to the lines of all the files together: only
\* the first file loses its first line.
TextLinesSkip1_first_file_only(f) ==
    IF f = 1
    THEN [i \in 1..(IF files[f] > 1 THEN files[f] - 1 ELSE 0) |-> <<f, i + 1>>]
    ELSE [i \in 1..files[f] |-> <<f, i>>]

\* TextLineDataset(filename).skip(count = 1): the lines after the first.
TextLinesSkip1(f) ==
    [i \in 1..(IF files[f] > 1 THEN files[f] - 1 ELSE 0) |-> <<f, i + 1>>]

\* flat_map over the file names in the order given.
RECURSIVE FlatMap(_)
FlatMap(order) ==
    IF order = <<>> THEN <<>>
    ELSE TextLinesSkip1(Head(order)) \o FlatMap(Tail(order))

\* The records of the source, file by file in the order of the file names.
SourceRecords == FlatMap([i \in 1..Len(files) |-> i])

NumRecords == Len(SourceRecords)

\* The iterator of the pipeline: the pass over read_dataset that is open
\* (live, stream, pos), the shuffle buffer (buf), repeat's first_call flag, and
\* whether batch has dropped its input after seeing it end (input_reset).
NoIterator ==
    [live |-> FALSE, stream |-> <<>>, pos |-> 0, buf |-> {}, first_call |-> TRUE,
     input_reset |-> FALSE]

\* A new iterator over read_dataset: one pass over the files.
NewIterators(first) ==
    {[live |-> TRUE, stream |-> FlatMap(o), pos |-> 0, buf |-> {}, first_call |-> first,
      input_reset |-> FALSE] : o \in list_files}

\* repeat().shuffle(buffer_size): the buffer is refilled from the start of the
\* source when a pass ends, so that it holds records of two passes.
ShuffleFill_across_passes(i, buffer_size) ==
    IF Len(i.stream) = 0 THEN i
    ELSE LET take == buffer_size - Cardinality(i.buf)
         IN [i EXCEPT !.buf = @ \cup {i.stream[((i.pos + j - 1) % Len(i.stream)) + 1] :
                                          j \in 1..take},
                      !.pos = (@ + take) % Len(i.stream)]

\* shuffle with a buffer as large as the source: the whole pass is buffered.
ShuffleFill_unbounded(i, buffer_size) ==
    [i EXCEPT !.buf = @ \cup {i.stream[j] : j \in (i.pos + 1)..Len(i.stream)},
              !.pos = Len(i.stream)]

\* shuffle(buffer_size): before emitting, the buffer is filled from the
\* source up to buffer_size elements.
ShuffleFill(i, buffer_size) ==
    LET take == Min(buffer_size - Cardinality(i.buf), Len(i.stream) - i.pos)
    IN [i EXCEPT !.buf = @ \cup {i.stream[j] : j \in (i.pos + 1)..(i.pos + take)},
                 !.pos = @ + take]

\* shuffle(buffer_size) without repeat: the end of the pass ends the sequence.
RepeatGetNext_single_pass(i) ==
    LET starts == IF i.live THEN {i} ELSE NewIterators(i.first_call)
        Outcomes(s) ==
            LET f == ShuffleFill(s, ShuffleBuffer)
            IN IF f.buf = {}
               THEN {[eos |-> TRUE, elem |-> <<>>, it |-> f]}
               ELSE {[eos |-> FALSE, elem |-> e,
                      it |-> [f EXCEPT !.buf = @ \ {e}, !.first_call = FALSE]] : e \in f.buf}
    IN UNION {Outcomes(s) : s \in starts}

\* One GetNext of shuffle(buffer_size).repeat(count = None): the possible
\* [eos, elem, it].  A pass that ends restarts the source, except that a pass
\* that ends on its first call ends the sequence.
RECURSIVE RepeatGetNext(_)
RepeatGetNext(i) ==
    LET starts == IF i.live THEN {i} ELSE NewIterators(i.first_call)
        Outcomes(s) ==
            LET f == ShuffleFill(s, ShuffleBuffer)
            IN IF f.buf = {}
               THEN IF f.first_call
                    THEN {[eos |-> TRUE, elem |-> <<>>, it |-> [f EXCEPT !.live = FALSE]]}
                    ELSE RepeatGetNext([f EXCEPT !.live = FALSE, !.first_call = TRUE])
               ELSE {[eos |-> FALSE, elem |-> e,
                      it |-> [f EXCEPT !.buf = @ \ {e}, !.first_call = FALSE]] : e \in f.buf}
    IN UNION {Outcomes(s) : s \in starts}

\* shuffle.batch.repeat: batch is applied before repeat, so that a batch ends
\* where the pass ends.
RECURSIVE TrainBatch_batch_before_repeat(_, _, _)
TrainBatch_batch_before_repeat(n, i, acc) ==
    IF n = 0 \/ (acc # <<>> /\ i.live /\ ShuffleFill(i, ShuffleBuffer).buf = {})
    THEN {[batch |-> acc, it |-> i, eos |-> FALSE]}
    ELSE UNION {IF r.eos THEN {[batch |-> acc, it |-> r.it, eos |-> TRUE]}
                         ELSE TrainBatch_batch_before_repeat(n - 1, r.it, Append(acc, r.elem)) :
                r \in RepeatGetNext(i)}

\* One GetNext of batch(batch_size) over the train stream: up to n more
\* elements; the batch is cut short only where the stream ends.
RECURSIVE TrainBatch(_, _, _)
TrainBatch(n, i, acc) ==
    IF n = 0 THEN {[batch |-> acc, it |-> i, eos |-> FALSE]}
    ELSE UNION {IF r.eos THEN {[batch |-> acc, it |-> r.it, eos |-> TRUE]}
                         ELSE TrainBatch(n - 1, r.it, Append(acc, r.elem)) :
                r \in RepeatGetNext(i)}

\* batch over a repeated source: the pass wraps around.
EvalBatch_repeated(n, i) ==
    IF Len(i.stream) = 0
    THEN [batch |-> <<>>, it |-> i, eos |-> TRUE]
    ELSE [batch |-> [k \in 1..n |-> i.stream[((i.pos + k - 1) % Len(i.stream)) + 1]],
          it |-> [i EXCEPT !.pos = (@ + n) % Len(i.stream)],
          eos |-> FALSE]

\* batch(batch_size, drop_remainder = True): a short last batch is dropped.
EvalBatch_drop_remainder(n, i) ==
    LET have == Len(i.stream) - i.pos
    IN IF have < n
       THEN [batch |-> <<>>, it |-> [i EXCEPT !.pos = Len(i.stream)], eos |-> TRUE]
       ELSE [batch |-> SubSeq(i.stream, i.pos + 1, i.pos + n),
             it |-> [i EXCEPT !.pos = @ + n],
             eos |-> FALSE]

\* One GetNext of batch(batch_size) over read_dataset.
EvalBatch(n, i) ==
    LET have == Len(i.stream) - i.pos
        take == Min(n, have)
    IN [batch |-> SubSeq(i.stream, i.pos + 1, i.pos + take),
        it |-> [i EXCEPT !.pos = @ + take],
        eos |-> have < n]

FeatIdle ==
    /\ raw = <<>>
    /\ path = "done"
    /\ pc = "start"
    /\ heap = [o \in {"row_dict", "placeholder_dict", "comprehension_dict"} |-> EmptyDict]
    /\ features = NoObject
    /\ element = [p \in Paths |-> <<>>]
    /\ vec = [p \in Paths |-> <<>>]
    /\ receiver_tensors = EmptyDict

Init ==
    /\ \E n \in FileCounts : files \in [1..n -> 0..MaxLines]
    /\ mode \in {"train", "eval"}
    /\ batch_size \in 1..MaxBatch
    /\ state = "Idle"
    /\ it = NoIterator
    /\ batches = <<>>
    /\ last = <<>>
    /\ pulls = 0
    /\ FeatIdle
    /\ ColIdle
    /\ RunIdle
    /\ OtherIdle

\* What a pull does to the assembler once the batch dataset has answered r:
\* an empty answer is end_of_sequence, and an input that ended is dropped.
Yield(r) ==
    /\ last' = r.batch
    /\ batches' = IF r.batch = <<>> THEN batches ELSE Append(batches, r.batch)
    /\ it' = [r.it EXCEPT !.input_reset = r.eos]
    /\ state' = IF r.batch = <<>> THEN "Exhausted" ELSE "Streaming"

\* A pull of a batch dataset that has dropped its input: end_of_sequence.
YieldNothing ==
    /\ last' = <<>>
    /\ state' = "Exhausted"
    /\ UNCHANGED <<batches, it>>

\* The consumer pulls the next batch of train_input_fn's dataset.
TrainPull ==
    /\ mode = "train"
    /\ pulls < MaxTrainPulls
    /\ pulls' = pulls + 1
    /\ IF it.input_reset
       THEN YieldNothing
       ELSE \E r \in TrainBatch(batch_size, it, <<>>) : Yield(r)
    /\ UNCHANGED <<files, mode, batch_size>>
    /\ UNCHANGED featVars
    /\ UNCHANGED colVars
    /\ UNCHANGED otherVars
    /\ UNCHANGED runVars

\* The consumer pulls the next batch of eval_input_fn's dataset.
EvalPull ==
    /\ mode = "eval"
    /\ pulls <= NumRecords + 1
    /\ pulls' = pulls + 1
    /\ IF it.input_reset
       THEN YieldNothing
       ELSE \E i \in (IF it.live THEN {it} ELSE NewIterators(TRUE)) :
                Yield(EvalBatch(batch_size, i))
    /\ UNCHANGED <<files, mode, batch_size>>
    /\ UNCHANGED featVars
    /\ UNCHANGED colVars
    /\ UNCHANGED otherVars
    /\ UNCHANGED runVars

Next ==
    \/ TrainPull
    \/ EvalPull

Spec == Init /\ [][Next]_vars

(***************************************************************************)
(* Properties of the batch assembler (checked under Spec)                  *)
(***************************************************************************)
RECURSIVE Concat(_)
Concat(ss) == IF ss = <<>> THEN <<>> ELSE Head(ss) \o Concat(Tail(ss))

CeilDiv(a, b) == (a + b - 1) \div b

Emitted == Len(Concat(batches))

\* C2 as claimed: in train mode the batch sequence never reaches Exhausted;
\* after any number of pulls a further pull still yields a batch.
C2_TrainNeverExhausted ==
    (mode = "train" /\ pulls > 0)
    => /\ state = "Streaming"
       /\ last # <<>>
       /\ Len(batches) = pulls

\* C2, amended: in train mode over a source with at least one record the batch
\* sequence never reaches Exhausted: every pull yields a batch, also when
\* there are more pulls than records; over a source with no record (headers
\* only) the first pull ends the sequence and no batch is ever yielded.
C2_TrainNeverExhaustedNonEmpty ==
    (mode = "train" /\ pulls > 0)
    => IF NumRecords > 0
       THEN /\ state = "Streaming"
            /\ last # <<>>
            /\ Len(batches) = pulls
       ELSE /\ state = "Exhausted"
            /\ last = <<>>
            /\ batches = <<>>

C2_Witness ==
    /\ mode = "train"
    /\ NumRecords = 1
    /\ batch_size = 2
    /\ pulls = MaxTrainPulls
    /\ pulls > NumRecords
    /\ Len(batches) = pulls
    /\ state = "Streaming"

\* C3 as claimed: in eval mode the first pull takes the assembler from Idle to
\* Streaming, it goes from Streaming to Exhausted once the source is drained,
\* and Exhausted is absorbing: a pull after exhaustion yields nothing and the
\* assembler never returns to Streaming or Idle.
C3_EvalStateMachine ==
    [][(mode = "eval" /\ pulls' = pulls + 1) =>
          /\ state = "Idle" => state' = "Streaming"
          /\ state = "Streaming" =>
                state' = IF Emitted < NumRecords THEN "Streaming" ELSE "Exhausted"
          /\ state = "Exhausted" =>
                (state' = "Exhausted" /\ last' = <<>> /\ batches' = batches)
          /\ state' # "Idle"]_vars

\* C3, amended: in eval mode the first pull takes the assembler from Idle to
\* Streaming when the source has a record, and from Idle straight to Exhausted
\* when it has none; from Streaming it goes to Exhausted at the pull that
\* finds the source drained; Exhausted is absorbing: a pull after exhaustion
\* yields nothing and the assembler never returns to Streaming or Idle.
C3_EvalStateMachineEmptyAware ==
    [][(mode = "eval" /\ pulls' = pulls + 1) =>
          /\ state = "Idle" =>
                state' = IF NumRecords > 0 THEN "Streaming" ELSE "Exhausted"
          /\ state = "Streaming" =>
                state' = IF Emitted < NumRecords THEN "Streaming" ELSE "Exhausted"
          /\ state = "Exhausted" =>
                (state' = "Exhausted" /\ last' = <<>> /\ batches' = batches)
          /\ state' # "Idle"]_vars

C3_Witness ==
    /\ mode = "eval"
    /\ NumRecords = 3
    /\ batch_size = 2
    /\ pulls = 4
    /\ state = "Exhausted"
    /\ last = <<>>
    /\ Len(batches) = 2

\* C4: in eval mode a source of N records with batch size B yields exactly
\* ceil(N/B) batches: every batch but the last has B records and the last has
\* N - B*(ceil(N/B) - 1) records, between 1 and B; N = 5, B = 2 gives sizes
\* 2, 2, 1 and N = 0 gives no batch.
C4_EvalBatchSizes ==
    mode = "eval"
    => LET n == Len(batches)
           full == CeilDiv(NumRecords, batch_size)
       IN /\ n <= full
          /\ \A k \in 1..n :
                Len(batches[k]) =
                    IF k < full THEN batch_size
                    ELSE NumRecords - batch_size * (full - 1)
          /\ \A k \in 1..n : Len(batches[k]) \in 1..batch_size
          /\ state = "Exhausted" => n = full

C4_Witness ==
    /\ mode = "eval"
    /\ NumRecords = 5
    /\ batch_size = 2
    /\ state = "Exhausted"
    /\ [k \in 1..Len(batches) |-> Len(batches[k])] = <<2, 2, 1>>

\* C5: in eval mode the concatenation of the emitted batches, in emission
\* order, is the source record sequence: each record exactly once, none
\* dropped or duplicated, in the order of the source.
C5_EvalKeepsSourceOrder ==
    (mode = "eval" /\ state = "Exhausted") => Concat(batches) = SourceRecords

(***************************************************************************)
(* ColumnSpec: one feature column of create_feature_columns applied to two *)
(* inputs, so that the blocks it gives for different inputs can be         *)
(* compared.                                                               *)
(***************************************************************************)
\* Coordinates around every boundary of the bounding box (each boundary, and
\* 1/300 degree to either side of it) and far outside the box.
GeoValues(boundaries) ==
    {boundaries[i] + d : i \in 1..Len(boundaries), d \in {-1, 0, 1}}
    \cup {boundaries[1] - Degrees(100), boundaries[Len(boundaries)] + Degrees(100)}

\* The day-hour indicator column given two (dayofweek, hourofday) pairs, as
\* add_engineered_features leaves them: dayofweek 0..6, hourofday 0..23.
CrossInputs ==
    {[col |-> 1,
      a |-> [dayofweek |-> d1, hourofday |-> h1],
      b |-> [dayofweek |-> d2, hourofday |-> h2]] :
        d1 \in 0..6, h1 \in 0..23, d2 \in 0..6, h2 \in 0..23}

\* A bucketized column given two coordinates.
BucketInputs ==
    {[col |-> k,
      a |-> [x \in {create_feature_columns[k].key} |-> v],
      b |-> [x \in {create_feature_columns[k].key} |-> w]] :
        k \in 2..5,
        v \in GeoValues(latbuckets) \cup GeoValues(lonbuckets),
        w \in GeoValues(latbuckets) \cup GeoValues(lonbuckets)}

ColumnInit ==
    /\ col_in \in CrossInputs \cup BucketInputs
    /\ col_out = <<>>
    /\ FeatIdle
    /\ PipeIdle
    /\ RunIdle
    /\ OtherIdle

\* The block of a column for one input: no tensor (<<>>) when it raises.
ColumnBlock(c, f) == IF ColumnFails(c, f) THEN <<>> ELSE DenseBlock(c, f)

\* indicator_column(fc_day_hr) evaluated on the two inputs.
IndicatorBlocks ==
    /\ col_out = <<>>
    /\ create_feature_columns[col_in.col].kind = "indicator"
    /\ col_out' = <<ColumnBlock(create_feature_columns[col_in.col], col_in.a),
                    ColumnBlock(create_feature_columns[col_in.col], col_in.b)>>
    /\ UNCHANGED col_in
    /\ UNCHANGED otherVars
    /\ UNCHANGED featVars
    /\ UNCHANGED pipeVars
    /\ UNCHANGED runVars

\* A bucketized column evaluated on the two inputs.
BucketizedBlocks ==
    /\ col_out = <<>>
    /\ create_feature_columns[col_in.col].kind = "bucketized"
    /\ col_out' = <<ColumnBlock(create_feature_columns[col_in.col], col_in.a),
                    ColumnBlock(create_feature_columns[col_in.col], col_in.b)>>
    /\ UNCHANGED col_in
    /\ UNCHANGED otherVars
    /\ UNCHANGED featVars
    /\ UNCHANGED pipeVars
    /\ UNCHANGED runVars

ColumnNext ==
    \/ IndicatorBlocks
    \/ BucketizedBlocks

ColumnSpec == ColumnInit /\ [][ColumnNext]_vars

(***************************************************************************)
(* Properties of the feature columns (checked under ColumnSpec)            *)
(***************************************************************************)
\* The positions of a block that hold a 1, counted from 0.
HotIndexes(block) == {i \in 0..(Len(block) - 1) : block[i + 1] = 1}

IsOneHot(block, width) ==
    /\ Len(block) = width
    /\ Cardinality(HotIndexes(block)) = 1
    /\ \A i \in 1..Len(block) : block[i] \in {0, 1}

HotIndex(block) == CHOOSE i \in HotIndexes(block) : TRUE

CrossDone == col_out # <<>> /\ col_in.col = 1

\* C11: the day-hour cross maps every pair (dayofweek in 0..6, hourofday in
\* 0..23) to one index of a 168-wide indicator, and two distinct pairs never
\* map to the same index.
C11_CrossIsInjective ==
    CrossDone
    => /\ IsOneHot(col_out[1], 168)
       /\ IsOneHot(col_out[2], 168)
       /\ col_in.a # col_in.b => HotIndex(col_out[1]) # HotIndex(col_out[2])

BucketDone == col_out # <<>> /\ col_in.col \in 2..5

\* The field a bucketized column under consideration reads, its two values,
\* and the 16 boundaries of the bounding box for that field.
BucketKey == create_feature_columns[col_in.col].key

BucketValue(f) == f[BucketKey]

BoxBoundaries ==
    IF BucketKey \in {"pickuplat", "dropofflat"} THEN latbuckets ELSE lonbuckets

\* C12: for each of the four lat/lon fields a value outside the bounding box
\* is clamped, not rejected: a value below the first boundary maps to bucket
\* 0, a value above the last boundary maps to bucket 16, and bucketization
\* gives a one-hot block of width 17 (no error) for every value.
C12_OutsideBoxIsClamped ==
    BucketDone
    => \A j \in 1..2 :
          LET v == BucketValue(IF j = 1 THEN col_in.a ELSE col_in.b)
          IN /\ IsOneHot(col_out[j], NBUCKETS + 1)
             /\ v < BoxBoundaries[1] => HotIndex(col_out[j]) = 0
             /\ v > BoxBoundaries[NBUCKETS] => HotIndex(col_out[j]) = NBUCKETS

C12_Witness ==
    /\ BucketDone
    /\ BucketKey = "pickuplat"
    /\ BucketValue(col_in.a) = Degrees(38) - Degrees(100)
    /\ BucketValue(col_in.b) = Degrees(42) + Degrees(100)
    /\ HotIndex(col_out[1]) = 0
    /\ HotIndex(col_out[2]) = 16

\* C13: the bucket index of a value is the number of boundaries less than or
\* equal to it: a value equal to a boundary falls in the bucket above that
\* boundary (the first boundary gives index 1, the last gives index 16), the
\* index is in 0..16, and the index is non-decreasing in the value.
C13_BoundaryRule ==
    BucketDone
    => LET v == BucketValue(col_in.a)
           w == BucketValue(col_in.b)
           i1 == HotIndex(col_out[1])
           i2 == HotIndex(col_out[2])
       IN /\ i1 = Cardinality({i \in 1..NBUCKETS : BoxBoundaries[i] <= v})
          /\ i2 = Cardinality({i \in 1..NBUCKETS : BoxBoundaries[i] <= w})
          /\ \A i \in 1..NBUCKETS : v = BoxBoundaries[i] => i1 = i
          /\ i1 \in 0..NBUCKETS
          /\ i2 \in 0..NBUCKETS
          /\ v <= w => i1 <= i2

C13_Witness ==
    /\ BucketDone
    /\ BucketKey = "dropofflon"
    /\ BucketValue(col_in.a) = lonbuckets[1]
    /\ BucketValue(col_in.b) = lonbuckets[NBUCKETS] - 1
    /\ HotIndex(col_out[1]) = 1
    /\ HotIndex(col_out[2]) = 15

(***************************************************************************)
(* ParserSpec: parse_row of the richer variant (path "train") and of the   *)
(* simple variant (path "simple") on CSV lines of any shape: complete      *)
(* lines, lines with empty fields, short lines and a line that is too long.*)
(***************************************************************************)
\* Two complete lines; no field of either equals its default.
BaseLines ==
    { << <<1000>>, <<3>>, <<14>>, <<Hundredths(-7399)>>, <<Hundredths(4075)>>,
         <<Hundredths(-7398)>>, <<Hundredths(4073)>> >>,
      << <<250>>, <<7>>, <<23>>, <<Hundredths(-7350)>>, <<Hundredths(4100)>>,
         <<Hundredths(-7410)>>, <<Hundredths(3990)>> >> }

\* The line with the fields at the positions in E left empty ("10.0,,14,...").
Blank(line, E) == [i \in 1..Len(line) |-> IF i \in E THEN <<>> ELSE line[i]]

CsvLines ==
    {Blank(l, E) : l \in BaseLines, E \in SUBSET (1..Len(CSV_COLUMN_NAMES))}
    \cup {SubSeq(l, 1, n) : l \in BaseLines, n \in 0..(Len(CSV_COLUMN_NAMES) - 1)}
    \cup {Append(l, <<5>>) : l \in BaseLines}

ParserInit ==
    /\ raw \in CsvLines
    /\ path \in {"train", "simple"}
    /\ pc = "start"
    /\ heap = [o \in {"row_dict", "placeholder_dict", "comprehension_dict"} |-> EmptyDict]
    /\ features = NoObject
    /\ element = [p \in Paths |-> <<>>]
    /\ vec = [p \in Paths |-> <<>>]
    /\ receiver_tensors = EmptyDict
    /\ PipeIdle
    /\ ColIdle
    /\ RunIdle
    /\ OtherIdle

ParserNext ==
    \/ ParseRowDecode
    \/ AddEngineeredFeatures
    \/ ParseRowReturn
    \/ SimpleParseRow

ParserSpec == ParserInit /\ [][ParserNext]_vars

(***************************************************************************)
(* Properties of the record parser (checked under ParserSpec)              *)
(***************************************************************************)
\* What the claimed parser reads for column i of the line: the field's value
\* when the field is there and not empty, the declared default otherwise.
FieldOrDefault(i) ==
    IF i <= Len(raw) /\ raw[i] # <<>> THEN raw[i][1] ELSE CSV_DEFAULTS[i]

\* C14: parse_row never throws on a short line (fewer than the 7 declared
\* columns): every missing trailing field gets its declared default (0.0, 1,
\* 0, -74.0, 40.0, -74.0, 40.7) and every field present keeps its value.
C14_ShortLineGetsDefaults ==
    Len(raw) < Len(CSV_COLUMN_NAMES)
    => /\ pc # "error"
       /\ pc = "packed" =>
             \A i \in 1..Len(CSV_COLUMN_NAMES) :
                heap[features][CSV_COLUMN_NAMES[i]] = FieldOrDefault(i)
       /\ (pc = "parsed" /\ path = "simple") =>
             /\ element["simple"][2] = FieldOrDefault(1)
             /\ \A i \in 2..Len(CSV_COLUMN_NAMES) :
                   element["simple"][1][CSV_COLUMN_NAMES[i]] = FieldOrDefault(i)

\* C15: for every parsed record parse_row returns the record's fare_amount
\* (first column) as the label and a feature mapping that has no fare_amount
\* and has all six other raw fields.
C15_LabelSplitFromFeatures ==
    pc = "parsed"
    => /\ Len(element[path]) = 2
       /\ element[path][2] = FieldOrDefault(1)
       /\ "fare_amount" \notin DOMAIN element[path][1]
       /\ \A i \in 2..Len(CSV_COLUMN_NAMES) :
             CSV_COLUMN_NAMES[i] \in DOMAIN element[path][1]
       /\ heap[features] = element[path][1]

C15_Witness ==
    /\ pc = "parsed"
    /\ path = "train"
    /\ raw \in BaseLines
    /\ raw[1] = <<1000>>
    /\ element["train"][2] = 1000
    /\ DOMAIN element["train"][1] =
          {"dayofweek", "hourofday", "pickuplon", "pickuplat", "dropofflon",
           "dropofflat", "latdiff", "londiff", "euclidean_dist"}

(***************************************************************************)
(* More properties of the batch assembler (checked under Spec)             *)
(***************************************************************************)
\* sum over the files of max(0, L - 1), L the number of lines of the file.
RECURSIVE SumDataLines(_)
SumDataLines(lines) ==
    IF lines = <<>> THEN 0
    ELSE (IF Head(lines) > 1 THEN Head(lines) - 1 ELSE 0) + SumDataLines(Tail(lines))

EmittedRecords == {Concat(batches)[i] : i \in 1..Emitted}

\* C16: read_dataset skips the first (header) line of every file matched by
\* the pattern: no record of any batch is the first line of a file, and a
\* full pass (eval mode, exhausted) holds exactly sum(max(0, Li - 1)) records,
\* the lines 2..Li of every file.
C16_HeaderOfEachFileSkipped ==
    /\ \A r \in EmittedRecords :
          /\ r[1] \in 1..Len(files)
          /\ r[2] \in 2..files[r[1]]
    /\ (mode = "eval" /\ state = "Exhausted")
          => /\ Emitted = SumDataLines(files)
             /\ EmittedRecords =
                   {r \in (1..Len(files)) \X (2..MaxLines) : r[2] <= files[r[1]]}

C16_Witness ==
    /\ mode = "eval"
    /\ state = "Exhausted"
    /\ files = <<3, 2>>
    /\ Emitted = 3
    /\ EmittedRecords = {<<1, 2>>, <<1, 3>>, <<2, 2>>}

(***************************************************************************)
(* More properties of the feature path (checked under FeatureSpec)         *)
(***************************************************************************)
\* C17: the serving input receiver accepts exactly the six raw named inputs
\* dayofweek, hourofday, pickuplon, pickuplat, dropofflon, dropofflat: its
\* receiver tensors have these six names (no fare_amount, no engineered name)
\* and hold the raw inputs, also after feature engineering has been applied
\* to build the model features.
C17_ReceiverTakesSixRawInputs ==
    Finished("serve")
    => /\ DOMAIN receiver_tensors =
             {"dayofweek", "hourofday", "pickuplon", "pickuplat", "dropofflon",
              "dropofflat"}
       /\ \A k \in DOMAIN receiver_tensors : receiver_tensors[k] = RawField(k)
       /\ heap["comprehension_dict"]["dayofweek"] = RawField("dayofweek") - 1
       /\ "euclidean_dist" \in DOMAIN heap["comprehension_dict"]

C17_Witness ==
    /\ path = "simple"
    /\ pc = "start"
    /\ raw = ExampleRow
    /\ Cardinality(DOMAIN receiver_tensors) = 6
    /\ receiver_tensors["dayofweek"] = 3
    /\ heap["comprehension_dict"]["dayofweek"] = 2
    /\ Len(vec["serve"]) = num_feature_columns

(***************************************************************************)
(* RunSpec: the notebook's train cell executed again and again:            *)
(*     shutil.rmtree(OUTDIR); train; evaluate                              *)
(* The estimator restores the latest checkpoint of its model_dir when      *)
(* training begins, takes one batch of train_input_fn's dataset per step   *)
(* until the step limit, and evaluates over eval_input_fn's dataset until  *)
(* the dataset ends (steps = None).                                        *)
(***************************************************************************)
\* the step limit; stands for max_steps = 500 / steps = 500
MaxSteps == 3

\* executions of the train cell
MaxRuns == 2

\* The files csv_path can match, by their numbers of lines: a header alone, a
\* header and 1 or 2 records, two files of 1 and 2 records.
RunFiles == {<<1>>, <<2>>, <<3>>, <<2, 3>>}

\* rmtree left out: OUTDIR keeps what it holds.
rmtree_skipped(dir) == dir

\* shutil.rmtree(path = OUTDIR, ignore_errors = True)
rmtree(dir) == NoCheckpoint

\* The global step the estimator starts from: that of the latest checkpoint in
\* model_dir, 0 without one.
latest_checkpoint(dir) == IF dir = NoCheckpoint THEN 0 ELSE dir

\* a checkpoint every SaveCheckpointsSteps steps; stands for
\* save_checkpoints_steps = 100 with max_steps = 500
SaveCheckpointsSteps == 2

\* What is given to EvalSpec as exporters: nothing (train and evaluate called
\* one after the other, no EvalSpec), a LatestExporter or a FinalExporter.
Exporters == {NoObject, "LatestExporter", "FinalExporter"}

\* Whether the exporter writes a SavedModel after an evaluation:
\* LatestExporter after every evaluation, FinalExporter only when the
\* evaluation is the final one.
export_after_evaluation(kind, is_the_final_export) ==
    \/ kind = "LatestExporter"
    \/ kind = "FinalExporter" /\ is_the_final_export

\* A stop rule that never asks for a stop.
stop_at_step_never(step, limit) == FALSE

\* StopAtStepHook: training stops once the global step has reached last_step.
stop_at_step(step, limit) == step >= limit

RunInit ==
    /\ run = "idle"
    /\ model_dir \in {NoCheckpoint, MaxSteps}
    /\ global_step = 0
    /\ start_step = 0
    /\ last_step = 0
    /\ runs = 0
    /\ exporter \in Exporters
    /\ exports = <<>>
    /\ files = <<>>
    /\ mode = "none"
    /\ batch_size \in 1..MaxBatch
    /\ state = "Idle"
    /\ it = NoIterator
    /\ batches = <<>>
    /\ last = <<>>
    /\ pulls = 0
    /\ FeatIdle
    /\ ColIdle
    /\ OtherIdle

\* shutil.rmtree(path = OUTDIR, ignore_errors = True), the first statement of
\* the train cell: the checkpoints and the exports under OUTDIR are deleted.
Rmtree ==
    /\ run = "idle"
    /\ runs < MaxRuns
    /\ model_dir' = rmtree(model_dir)
    /\ exports' = <<>>
    /\ run' = "cleared"
    /\ UNCHANGED <<global_step, start_step, last_step, runs, exporter>>
    /\ UNCHANGED pipeVars
    /\ UNCHANGED featVars
    /\ UNCHANGED colVars
    /\ UNCHANGED otherVars

\* Training begins: the estimator restores the latest checkpoint of model_dir,
\* fixes the step to stop at (max_steps, or steps more than the step restored),
\* builds train_input_fn's dataset and saves a first checkpoint.
TrainBegin ==
    /\ run = "cleared"
    /\ global_step' = latest_checkpoint(model_dir)
    /\ start_step' = latest_checkpoint(model_dir)
    /\ last_step' \in {MaxSteps, latest_checkpoint(model_dir) + MaxSteps}
    /\ model_dir' = latest_checkpoint(model_dir)
    /\ files' \in RunFiles
    /\ mode' = "train"
    /\ state' = "Idle"
    /\ it' = NoIterator
    /\ batches' = <<>>
    /\ last' = <<>>
    /\ pulls' = 0
    /\ run' = "training"
    /\ UNCHANGED <<batch_size, runs, exporter, exports>>
    /\ UNCHANGED featVars
    /\ UNCHANGED colVars
    /\ UNCHANGED otherVars

\* One training step: it takes the next batch of the dataset; the end of the
\* dataset ends training, with a last checkpoint.  Under train_and_evaluate a
\* checkpoint is saved every SaveCheckpointsSteps steps, and the listener for
\* new checkpoints evaluates it, unless throttle_secs have not passed since
\* the evaluation before, and hands the result to the exporter.
TrainStep ==
    /\ run = "training"
    /\ ~stop_at_step(global_step, last_step)
    /\ pulls' = pulls + 1
    /\ IF it.input_reset
       THEN YieldNothing
       ELSE \E r \in TrainBatch(batch_size, it, <<>>) : Yield(r)
    /\ IF last' = <<>>
       THEN /\ run' = "trained"
            /\ model_dir' = global_step
            /\ UNCHANGED <<global_step, exports>>
       ELSE /\ global_step' = global_step + 1
            /\ UNCHANGED run
            /\ IF /\ exporter # NoObject
                  /\ global_step' % SaveCheckpointsSteps = 0
                  /\ ~stop_at_step(global_step', last_step)
               THEN /\ model_dir' = global_step'
                    /\ \E throttled \in BOOLEAN :
                          exports' =
                              IF ~throttled /\ export_after_evaluation(exporter, FALSE)
                              THEN Append(exports, global_step')
                              ELSE exports
               ELSE UNCHANGED <<model_dir, exports>>
    /\ UNCHANGED <<start_step, last_step, runs, exporter>>
    /\ UNCHANGED <<files, mode, batch_size>>
    /\ UNCHANGED featVars
    /\ UNCHANGED colVars
    /\ UNCHANGED otherVars

\* The step limit is reached: training stops and the last checkpoint is saved.
TrainEnd ==
    /\ run = "training"
    /\ stop_at_step(global_step, last_step)
    /\ model_dir' = global_step
    /\ run' = "trained"
    /\ UNCHANGED <<global_step, start_step, last_step, runs, exporter, exports>>
    /\ UNCHANGED pipeVars
    /\ UNCHANGED featVars
    /\ UNCHANGED colVars
    /\ UNCHANGED otherVars

\* Evaluation begins: eval_input_fn's dataset is built.
EvalBegin ==
    /\ run = "trained"
    /\ files' \in RunFiles
    /\ mode' = "eval"
    /\ state' = "Idle"
    /\ it' = NoIterator
    /\ batches' = <<>>
    /\ last' = <<>>
    /\ pulls' = 0
    /\ run' = "evaluating"
    /\ UNCHANGED batch_size
    /\ UNCHANGED <<model_dir, global_step, start_step, last_step, runs, exporter, exports>>
    /\ UNCHANGED featVars
    /\ UNCHANGED colVars
    /\ UNCHANGED otherVars

\* One evaluation step (steps = None: no limit): the next batch of the dataset.
EvalStep ==
    /\ run = "evaluating"
    /\ state # "Exhausted"
    /\ pulls' = pulls + 1
    /\ IF it.input_reset
       THEN YieldNothing
       ELSE \E i \in (IF it.live THEN {it} ELSE NewIterators(TRUE)) :
                Yield(EvalBatch(batch_size, i))
    /\ UNCHANGED <<files, mode, batch_size>>
    /\ UNCHANGED runVars
    /\ UNCHANGED featVars
    /\ UNCHANGED colVars
    /\ UNCHANGED otherVars

\* The dataset has ended: evaluation returns, the exporter is handed the
\* result (the final one when the global step has reached max_steps), and the
\* cell is done.
EvalEnd ==
    /\ run = "evaluating"
    /\ state = "Exhausted"
    /\ run' = "idle"
    /\ runs' = runs + 1
    /\ exports' =
          IF export_after_evaluation(exporter, stop_at_step(global_step, last_step))
          THEN Append(exports, global_step)
          ELSE exports
    /\ files' = <<>>
    /\ mode' = "none"
    /\ state' = "Idle"
    /\ it' = NoIterator
    /\ batches' = <<>>
    /\ last' = <<>>
    /\ pulls' = 0
    /\ UNCHANGED batch_size
    /\ UNCHANGED <<model_dir, global_step, start_step, last_step, exporter>>
    /\ UNCHANGED featVars
    /\ UNCHANGED colVars
    /\ UNCHANGED otherVars

RunNext ==
    \/ Rmtree
    \/ TrainBegin
    \/ TrainStep
    \/ TrainEnd
    \/ EvalBegin
    \/ EvalStep
    \/ EvalEnd

RunSpec == RunInit /\ [][RunNext]_vars

\* The cell runs to completion: a step that can be taken is taken.
FairRunSpec == RunInit /\ [][RunNext]_vars /\ WF_vars(RunNext)

(***************************************************************************)
(* Properties of the training runs (checked under RunSpec / FairRunSpec)   *)
(***************************************************************************)
\* C18: training terminates by step count, not by pipeline exhaustion: with a
\* step limit N over a non-empty source of any size, training eventually
\* stops, after exactly N steps, each step having consumed one batch; the
\* global step never decreases during training and never exceeds N.
C18_TrainingStopsByStepCount ==
    /\ [](run \in {"training", "trained"} =>
             /\ global_step <= MaxSteps
             /\ Len(batches) = global_step - start_step
             /\ (run = "trained" /\ NumRecords > 0) =>
                   /\ global_step = MaxSteps
                   /\ Len(batches) = MaxSteps
                   /\ state = "Streaming")
    /\ [][(run = "training" /\ run' \in {"training", "trained"})
             => global_step' \in {global_step, global_step + 1}]_vars
    /\ (run = "training") ~> (run = "trained")

C18_Witness ==
    /\ run = "trained"
    /\ files = <<2>>
    /\ batch_size = 2
    /\ NumRecords = 1
    /\ global_step = MaxSteps
    /\ Len(batches) = MaxSteps
    /\ model_dir = MaxSteps

\* C19: evaluation with no step limit over eval_input_fn always terminates:
\* the dataset is not repeated, so for every finite source the evaluation
\* takes one pull per batch and one more that finds the end of the data, and
\* then ends.
C19_EvaluationTerminates ==
    /\ [](run = "evaluating" =>
             /\ pulls <= SumDataLines(files) + 1
             /\ state = "Exhausted" =>
                   pulls = CeilDiv(SumDataLines(files), batch_size) + 1)
    /\ (run = "evaluating") ~> (run = "idle")

C19_Witness ==
    /\ run = "evaluating"
    /\ state = "Exhausted"
    /\ files = <<2, 3>>
    /\ batch_size = 2
    /\ Len(batches) = 2
    /\ pulls = 3

\* C20: every training run starts fresh: the output directory is deleted
\* before training begins, so no checkpoint written by an earlier run is
\* restored and training starts at global step 0, whatever runs preceded it.
C20_TrainingStartsFresh ==
    /\ run = "cleared" => model_dir = NoCheckpoint
    /\ run \in {"training", "trained", "evaluating"} => start_step = 0
    /\ (run = "training" /\ pulls = 0) => global_step = 0

C20_Witness ==
    /\ runs = 1
    /\ run = "training"
    /\ pulls = 0
    /\ start_step = 0
    /\ global_step = 0
    /\ last_step = MaxSteps

(***************************************************************************)
(* Properties of shuffle / repeat / batch in train mode (checked under     *)
(* Spec)                                                                   *)
(***************************************************************************)
\* C26: in train mode over a source with at least one record every emitted
\* batch has exactly batch_size records, also when the source has fewer
\* records than batch_size or a number that batch_size does not divide: a
\* batch runs on into the next pass, and no short batch is emitted.
C26_TrainBatchesAreFull ==
    (mode = "train" /\ NumRecords > 0)
    => \A k \in 1..Len(batches) : Len(batches[k]) = batch_size

\* A source of one record with batch size 2: both batches hold the record
\* twice, once from each of two consecutive passes.
C26_Witness ==
    /\ mode = "train"
    /\ NumRecords = 1
    /\ batch_size = 2
    /\ Len(batches) = 2
    /\ \A k \in 1..2 : batches[k] = SourceRecords \o SourceRecords

\* The records emitted in block b (0-based) of n consecutive records.
EpochBlock(s, n, b) ==
    SubSeq(s, b * n + 1, Min((b + 1) * n, Len(s)))

\* C27: in train mode the record stream is a concatenation of epochs: every
\* consecutive block of N emitted records holds each of the N source records
\* exactly once, and the records of a block that is not yet complete are
\* distinct source records.
C27_EpochsNeverMix ==
    mode = "train"
    => LET s == Concat(batches)
           n == NumRecords
       IN \A b \in 0..(IF n = 0 THEN 0 ELSE Len(s) \div n) :
             LET block == EpochBlock(s, n, b)
             IN /\ \A x, y \in 1..Len(block) : x # y => block[x] # block[y]
                /\ \A x \in 1..Len(block) :
                      \E y \in 1..n : SourceRecords[y] = block[x]
                /\ Len(block) = n =>
                      \A y \in 1..n : \E x \in 1..n : block[x] = SourceRecords[y]

\* Two whole epochs of a source of two records have been emitted, the second
\* in the opposite order of the first.
C27_Witness ==
    /\ mode = "train"
    /\ NumRecords = 2
    /\ batch_size = 2
    /\ Len(batches) = 2
    /\ batches[1][1] = batches[2][2]
    /\ batches[1][2] = batches[2][1]

\* The records emitted so far in the pass that is open.
EmittedInPass == it.pos - Cardinality(it.buf)

\* The position of record e in the pass that is open.
StreamPosition(e) == CHOOSE j \in 1..Len(it.stream) : it.stream[j] = e

\* The orders of the records of seq.
Orders(seq) ==
    {[k \in 1..Len(seq) |-> seq[p[k]]] : p \in FileOrders(Len(seq))}

\* C28: in train mode the shuffle buffer never holds more than ShuffleBuffer
\* records; the record at position i of a pass is never emitted earlier than
\* at position i - (ShuffleBuffer - 1) of the output of that pass; and over a
\* source of at most ShuffleBuffer records every order of the records is a
\* possible output of a pass.
C28_ShuffleBoundedByBuffer ==
    mode = "train"
    => /\ Cardinality(it.buf) <= ShuffleBuffer
       /\ Cardinality(ShuffleFill(it, ShuffleBuffer).buf) <= ShuffleBuffer
       /\ it.live =>
             LET s == Concat(batches)
             IN \A p \in 1..EmittedInPass :
                   StreamPosition(s[Len(s) - EmittedInPass + p]) - (ShuffleBuffer - 1) <= p
       /\ (state = "Idle" /\ NumRecords \in 1..ShuffleBuffer /\ batch_size = NumRecords)
             => {r.batch : r \in TrainBatch(batch_size, it, <<>>)} = Orders(SourceRecords)

\* One file of three records, more than the buffer holds: the record at
\* position 2 has been emitted first, its earliest output position.
C28_Witness ==
    /\ mode = "train"
    /\ files = <<4>>
    /\ batch_size = 2
    /\ Len(batches) = 1
    /\ batches[1] = <<<<1, 3>>, <<1, 2>>>>
    /\ Cardinality(it.buf) < ShuffleBuffer

(***************************************************************************)
(* Properties of the categorical blocks of the feature vector              *)
(***************************************************************************)
\* The columns of the richer variant in the order of their names, and the
\* position in the row of the input layer before which each one starts.
SortedColumns == SortedByName(create_feature_columns)

BlockStart == [k \in 1..Len(SortedColumns) |-> SumWidths(SubSeq(SortedColumns, 1, k - 1))]

\* The block of the k-th column, in the order of the column names, within
\* the row v of the input layer.
VectorBlock(v, k) ==
    SubSeq(v, BlockStart[k] + 1, BlockStart[k] + ColumnWidth(SortedColumns[k]))

\* The columns of the input layer that are categorical, by their position in
\* the order of the column names.
CategoricalBlocks ==
    {k \in 1..Len(SortedColumns) : SortedColumns[k].kind # "numeric"}

\* C29 (checked under FeatureSpec): in every feature vector of the richer
\* variant built from a valid record, on the training, the evaluation and
\* the serving path, there are five categorical blocks, the 168-wide
\* day-hour cross and four 17-wide lat/lon bucket blocks, and each of them
\* holds exactly one 1 and 0 everywhere else.
C29_CategoricalBlocksAreOneHot ==
    \A p \in {"train", "eval", "serve"} :
       vec[p] # <<>>
       => /\ Cardinality(CategoricalBlocks) = 5
          /\ \A k \in CategoricalBlocks :
                /\ ColumnWidth(SortedColumns[k])
                      = IF SortedColumns[k].kind = "indicator" THEN 168 ELSE 17
                /\ IsOneHot(VectorBlock(vec[p], k), ColumnWidth(SortedColumns[k]))
          /\ Cardinality({k \in CategoricalBlocks :
                            SortedColumns[k].kind = "indicator"}) = 1

\* The serving path has built the vector of a record picked up at the middle
\* of the box: its pickuplat block (the 7th column by name) is hot at 8.
C29_Witness ==
    /\ vec["serve"] # <<>>
    /\ RawField("pickuplat") = Degrees(40)
    /\ HotIndexes(VectorBlock(vec["serve"], 7)) = {8}
    /\ Cardinality(HotIndexes(VectorBlock(vec["serve"], 1))) = 1

\* The i-th of the 16 boundaries of the axis of a lat/lon field: longitudes
\* from -76.0 to -72.0, latitudes from 38.0 to 42.0, evenly spaced.
AxisBoundary(key, i) ==
    IF key \in {"pickuplon", "dropofflon"}
    THEN Degrees(-76) + ((i - 1) * Degrees(4)) \div 15
    ELSE Degrees(38) + ((i - 1) * Degrees(4)) \div 15

\* C30 (checked under ColumnSpec): each of the four bucketized columns reads
\* one lat/lon field and is given the 16 boundaries of that field's own
\* axis, and the bucket of a value is found against those boundaries:
\* pickuplon and dropofflon against the longitude boundaries, pickuplat and
\* dropofflat against the latitude boundaries.
C30_OwnAxisBoundaries ==
    /\ {create_feature_columns[k].key : k \in 2..5}
          = {"pickuplon", "pickuplat", "dropofflon", "dropofflat"}
    /\ BucketDone
       => /\ create_feature_columns[col_in.col].boundaries
                = [i \in 1..16 |-> AxisBoundary(BucketKey, i)]
          /\ \A j \in 1..2 :
                HotIndexes(col_out[j])
                    = {Cardinality({i \in 1..16 :
                          AxisBoundary(BucketKey, i)
                              <= BucketValue(IF j = 1 THEN col_in.a ELSE col_in.b)})}

\* pickuplon at -74.0 falls in bucket 8 of the longitude axis, and a value
\* of 40.0, inside the latitude box, lies above every longitude boundary.
C30_Witness ==
    /\ BucketDone
    /\ BucketKey = "pickuplon"
    /\ BucketValue(col_in.a) = lonbuckets[8] + 1
    /\ BucketValue(col_in.b) = latbuckets[8] + 1
    /\ HotIndexes(col_out[1]) = {8}
    /\ HotIndexes(col_out[2]) = {16}

(***************************************************************************)
(* Properties of the simple variant (checked under FeatureSpec)            *)
(***************************************************************************)
\* The six raw feature names in the order of the input layer.
SimpleNameOrder ==
    <<"dayofweek", "dropofflat", "dropofflon", "hourofday", "pickuplat", "pickuplon">>

\* C22: in the simple variant the model receives the six raw feature values
\* unmodified: the features of a parsed record (training and evaluation) and
\* the features of the serving receiver are the six names of FEATURE_NAMES,
\* no engineered field among them, each holding the value of the record's
\* field of that name (dayofweek in 1..7), and the row of the input layer is
\* those six values.
C22_SimpleVariantPassesRawValues ==
    /\ (path = "simple" /\ pc \in {"parsed", "trained"}) \/ Finished("simple")
       => LET f == element["simple"][1]
          IN /\ DOMAIN f = {FEATURE_NAMES[i] : i \in 1..Len(FEATURE_NAMES)}
             /\ \A k \in DOMAIN f : f[k] = RawField(k)
             /\ f["dayofweek"] \in 1..7
    /\ (path = "simple" /\ pc = "trained") \/ Finished("simple")
       => vec["simple"] = [i \in 1..6 |-> RawField(SimpleNameOrder[i])]
    /\ Finished("simple")
       => /\ DOMAIN receiver_tensors = {FEATURE_NAMES[i] : i \in 1..Len(FEATURE_NAMES)}
          /\ \A k \in DOMAIN receiver_tensors : receiver_tensors[k] = RawField(k)
          /\ heap["placeholder_dict"] = receiver_tensors
          /\ input_layer(receiver_tensors, feature_columns) = vec["simple"]

\* The example record through the simple variant: dayofweek is still 3.
C22_Witness ==
    /\ Finished("simple")
    /\ raw = ExampleRow
    /\ element["simple"][1]["dayofweek"] = 3
    /\ vec["simple"] = <<3, Hundredths(4073), Hundredths(-7398), 14,
                          Hundredths(4075), Hundredths(-7399)>>
    /\ receiver_tensors["dayofweek"] = 3

(***************************************************************************)
(* Properties of the export (checked under RunSpec)                        *)
(***************************************************************************)
\* C25: in train_and_evaluate the SavedModel is exported once, at the end of
\* training: no SavedModel is written at a global step before max_steps, and
\* a run that has trained to max_steps has written exactly one.
C25_ExportedOnceAtEnd ==
    exporter # NoObject
    => /\ \A i \in 1..Len(exports) : exports[i] >= last_step
       /\ (run = "idle" /\ runs > 0 /\ stop_at_step(global_step, last_step))
             => Len(exports) = 1

(***************************************************************************)
(* TaskSpec: the entry point task.py of the package: it declares five      *)
(* options, parses the command line and calls model.train_and_evaluate     *)
(* with the parsed arguments.                                              *)
(***************************************************************************)
\* The dest of each add_argument: --job-dir is stored as job_dir.
Dests == {"train_data_path", "train_steps", "eval_data_path", "output_dir", "job_dir"}

\* Values an option is given on the command line.
ArgValues(dest) ==
    CASE dest = "train_data_path" -> {"taxi-train.csv"}
      [] dest = "eval_data_path" -> {"taxi-valid.csv"}
      [] dest = "output_dir" -> {"taxi_trained", "gs://bucket/taxifare"}
      [] dest = "job_dir" -> {"gs://bucket/taxifare"}
      [] dest = "train_steps" -> {"1", "500", "abc"}

\* The command lines: any of the options given or left out.
CommandLines ==
    {a \in UNION {[D -> UNION {ArgValues(d) : d \in Dests}] : D \in SUBSET Dests} :
        \A d \in DOMAIN a : a[d] \in ArgValues(d)}

\* No option is required.
required_never(dest) == FALSE

\* required = True
required(dest) == dest \in {"train_data_path", "eval_data_path", "output_dir"}

\* The default of an option that is not given.
default(dest) == IF dest = "train_steps" THEN 1000 ELSE NoObject

\* type = int: int(string) raises ValueError for a string that is no number.
int_raises(string) == string \notin {"1", "500"}

int(string) == CASE string = "1" -> 1 [] string = "500" -> 500

\* parse_args prints the usage and exits with status 2 when a required option
\* is missing or a value does not convert to its type.
parse_args_exits(a) ==
    \/ \E d \in Dests : required(d) /\ d \notin DOMAIN a
    \/ "train_steps" \in DOMAIN a /\ int_raises(a["train_steps"])

\* parser.parse_args().__dict__
parse_args(a) ==
    [d \in Dests |->
        IF d \in DOMAIN a
        THEN IF d = "train_steps" THEN int(a[d]) ELSE a[d]
        ELSE default(d)]

TaskInit ==
    /\ argv \in CommandLines
    /\ args = <<>>
    /\ task_pc = "start"
    /\ params = <<>>
    /\ FeatIdle
    /\ PipeIdle
    /\ ColIdle
    /\ RunIdle
    /\ PairIdle
    /\ PredictIdle

\* args = parser.parse_args().__dict__
ParseArgs ==
    /\ task_pc = "start"
    /\ IF parse_args_exits(argv)
       THEN /\ task_pc' = "exit"
            /\ UNCHANGED args
       ELSE /\ task_pc' = "parsed"
            /\ args' = parse_args(argv)
    /\ UNCHANGED <<argv, params>>
    /\ UNCHANGED <<featVars, pipeVars, colVars, runVars, pairVars, predictVars>>

\* model.train_and_evaluate(args)
CallTrainAndEvaluate ==
    /\ task_pc = "parsed"
    /\ params' = args
    /\ task_pc' = "called"
    /\ UNCHANGED <<argv, args>>
    /\ UNCHANGED <<featVars, pipeVars, colVars, runVars, pairVars, predictVars>>

\* train_and_evaluate(params): TRAIN_STEPS = params["train_steps"] is the
\* max_steps of the TrainSpec.
TrainSpecMaxSteps ==
    /\ task_pc = "called"
    /\ last_step' = params["train_steps"]
    /\ task_pc' = "training"
    /\ UNCHANGED <<argv, args, params>>
    /\ UNCHANGED <<run, model_dir, global_step, start_step, runs, exporter, exports>>
    /\ UNCHANGED <<featVars, pipeVars, colVars, pairVars, predictVars>>

TaskNext ==
    \/ ParseArgs
    \/ CallTrainAndEvaluate
    \/ TrainSpecMaxSteps

TaskSpec == TaskInit /\ [][TaskNext]_vars

\* C24: task.py starts training only with a complete parameter set: when
\* --train_data_path, --eval_data_path or --output_dir is missing, parsing
\* fails and model.train_and_evaluate is never called; when it is called, it
\* is given the three values of the command line; and when --train_steps is
\* omitted, training runs with train_steps = 1000.
C24_TrainingNeedsCompleteArguments ==
    LET needed == {"train_data_path", "eval_data_path", "output_dir"}
        called == task_pc \in {"called", "training"}
    IN /\ called => /\ needed \subseteq DOMAIN argv
                     /\ \A d \in needed : params[d] = argv[d]
       /\ (~(needed \subseteq DOMAIN argv) /\ task_pc # "start")
             => /\ task_pc = "exit"
                /\ params = <<>>
       /\ (called /\ "train_steps" \notin DOMAIN argv)
             => params["train_steps"] = 1000
       /\ (task_pc = "training" /\ "train_steps" \notin DOMAIN argv)
             => last_step = 1000
       /\ (task_pc = "training" /\ "train_steps" \in DOMAIN argv)
             => last_step = int(argv["train_steps"])

\* The three paths given and --train_steps left out: training runs with
\* max_steps = 1000.
C24_Witness ==
    /\ task_pc = "training"
    /\ DOMAIN argv = {"train_data_path", "eval_data_path", "output_dir"}
    /\ params["train_steps"] = 1000
    /\ last_step = 1000

(***************************************************************************)
(* PredictSpec: model.predict(input_fn = lambda: predict_input_fn(df)).    *)
(* predict_input_fn slices the feature columns of the DataFrame row by row *)
(* and batches them; the generator of model.predict runs the model on one  *)
(* batch at a time and yields the predictions of the batch one by one,     *)
(* until the dataset ends.                                                 *)
(***************************************************************************)
\* rows of a DataFrame
MaxRows == 4

\* A row is given by the value of its features.
RowValues == {1, 2}

\* The DataFrames given to predict_input_fn: up to MaxRows rows, rows with
\* equal features among them, and the ten rows of df_test[:10].
DataFrames ==
    UNION {[1..n -> RowValues] : n \in 0..MaxRows} \cup {[i \in 1..10 |-> i]}

\* tf.data.Dataset.from_tensor_slices(tensors = dict(df[FEATURE_NAMES])): one
\* element per row, in the order of the rows.
from_tensor_slices(rows) ==
    [live |-> TRUE, stream |-> rows, pos |-> 0, buf |-> {}, first_call |-> TRUE,
     input_reset |-> FALSE]

\* The prediction of the model for one row: a dict with the key "predictions".
predict(row) == [predictions |-> row]

PredictInit ==
    /\ df \in DataFrames
    /\ preds_evaluated = <<>>
    /\ predictions = <<>>
    /\ files = <<>>
    /\ mode = "predict"
    /\ batch_size \in 1..MaxBatch
    /\ state = "Idle"
    /\ it = NoIterator
    /\ batches = <<>>
    /\ last = <<>>
    /\ pulls = 0
    /\ FeatIdle
    /\ ColIdle
    /\ RunIdle
    /\ PairIdle
    /\ TaskIdle

\* preds_evaluated = mon_sess.run(predictions): the model is run on the next
\* batch of predict_input_fn's dataset; the end of the dataset ends the
\* generator.
PredictRun ==
    /\ mode = "predict"
    /\ preds_evaluated = <<>>
    /\ state # "Exhausted"
    /\ pulls' = pulls + 1
    /\ IF it.input_reset
       THEN YieldNothing
       ELSE Yield(EvalBatch(batch_size, IF it.live THEN it ELSE from_tensor_slices(df)))
    /\ preds_evaluated' = [k \in 1..Len(last') |-> predict(last'[k])]
    /\ UNCHANGED <<df, predictions>>
    /\ UNCHANGED <<files, mode, batch_size>>
    /\ UNCHANGED <<featVars, colVars, runVars, pairVars, taskVars>>

\* The generator yields the next prediction of the batch.
PredictYield ==
    /\ mode = "predict"
    /\ preds_evaluated # <<>>
    /\ predictions' = Append(predictions, Head(preds_evaluated))
    /\ preds_evaluated' = Tail(preds_evaluated)
    /\ UNCHANGED df
    /\ UNCHANGED <<featVars, pipeVars, colVars, runVars, pairVars, taskVars>>

PredictNext ==
    \/ PredictRun
    \/ PredictYield

PredictSpec == PredictInit /\ [][PredictNext]_vars

\* C23: prediction over predict_input_fn yields one prediction per input
\* row, in the order of the rows, and then ends: what has been yielded is at
\* every moment the predictions of the first rows, the model is run once per
\* batch and once more to find the end of the data, and when the generator
\* has ended K rows have given exactly K predictions, whatever the batch
\* size.
C23_OnePredictionPerRecord ==
    mode = "predict"
    => /\ Len(predictions) <= Len(df)
       /\ \A i \in 1..Len(predictions) : predictions[i] = predict(df[i])
       /\ pulls <= CeilDiv(Len(df), batch_size) + 1
       /\ state = "Exhausted"
             => /\ Len(predictions) = Len(df)
                /\ preds_evaluated = <<>>
                /\ pulls = CeilDiv(Len(df), batch_size) + 1

\* The ten rows of df_test[:10] have given ten predictions.
C23_Witness ==
    /\ mode = "predict"
    /\ state = "Exhausted"
    /\ Len(df) = 10
    /\ Len(predictions) = 10
    /\ predictions[10] = predict(df[10])

(***************************************************************************)
(* PairSpec: train_and_evaluate holds two pipelines at a time, the one     *)
(* built by the call of train_input_fn and the one built by the call of    *)
(* eval_input_fn, and pulls them in an order of its own.  Each call builds *)
(* its own dataset by read_dataset, and each dataset has its own iterator. *)
(***************************************************************************)
Instances == {"train", "eval"}

\* The pipeline an input_fn call returns, before its first pull.
NewInstance ==
    [state |-> "Idle", it |-> NoIterator, batches |-> <<>>, last |-> <<>>, pulls |-> 0]

\* One dataset kept at module level and returned by both input functions.
dataset_of_shared(inst) == "train"

\* The dataset whose iterator a pipeline pulls: the one its own input_fn call
\* built (dataset = read_dataset(csv_path) is a local of the call).
dataset_of(inst) == inst

\* The possible answers of the batch dataset of a pipeline at iterator i.
BatchOutcomes(inst, i) ==
    IF inst = "train"
    THEN TrainBatch(batch_size, i, <<>>)
    ELSE {EvalBatch(batch_size, j) : j \in (IF i.live THEN {i} ELSE NewIterators(TRUE))}

\* The pipeline p after a pull that the batch dataset answered with r.
Yielded(p, r) ==
    [p EXCEPT !.last = r.batch,
              !.batches = IF r.batch = <<>> THEN @ ELSE Append(@, r.batch),
              !.it = [r.it EXCEPT !.input_reset = r.eos],
              !.state = IF r.batch = <<>> THEN "Exhausted" ELSE "Streaming",
              !.pulls = @ + 1]

\* The pipeline p after a pull of a batch dataset that has dropped its input.
YieldedNothing(p) ==
    [p EXCEPT !.last = <<>>, !.state = "Exhausted", !.pulls = @ + 1]

PairInit ==
    /\ files \in RunFiles
    /\ mode = "pair"
    /\ batch_size \in 1..MaxBatch
    /\ state = "Idle"
    /\ it = NoIterator
    /\ batches = <<>>
    /\ last = <<>>
    /\ pulls = 0
    /\ instances = [inst \in Instances |-> NewInstance]
    /\ FeatIdle
    /\ ColIdle
    /\ RunIdle
    /\ PredictIdle
    /\ TaskIdle

\* A pull of one of the two pipelines.
PairPull(inst) ==
    /\ mode = "pair"
    /\ LET i == instances[dataset_of(inst)].it
       IN IF i.input_reset
          THEN instances' = [instances EXCEPT ![inst] = YieldedNothing(@)]
          ELSE \E r \in BatchOutcomes(inst, i) :
                  instances' =
                      [[instances EXCEPT ![inst] = Yielded(@, r)]
                          EXCEPT ![dataset_of(inst)].it = [r.it EXCEPT !.input_reset = r.eos]]
    /\ UNCHANGED <<featVars, pipeVars, colVars, runVars, predictVars, taskVars>>

\* A training step pulls the pipeline of train_input_fn.
TrainInstancePull ==
    /\ instances["train"].pulls < MaxTrainPulls
    /\ PairPull("train")

\* An evaluation step pulls the pipeline of eval_input_fn.
EvalInstancePull ==
    /\ instances["eval"].pulls <= NumRecords + 1
    /\ PairPull("eval")

PairNext ==
    \/ TrainInstancePull
    \/ EvalInstancePull

PairSpec == PairInit /\ [][PairNext]_vars

\* What a pull can make of the pipeline p of inst when it runs alone.
AlonePull(inst, p) ==
    IF p.it.input_reset
    THEN {YieldedNothing(p)}
    ELSE {Yielded(p, r) : r \in BatchOutcomes(inst, p.it)}

\* C21: a train-mode pipeline and an eval-mode pipeline pulled in any
\* interleaving share no state: a pull of one pipeline leaves the other,
\* its shuffle buffer and its iterator included, as it was, and what the
\* pull yields is what it can yield when the pipeline runs alone, so that
\* the batch sequence of each pipeline is one it emits alone.
C21_PipelinesShareNoState ==
    [][\A inst \in Instances :
          instances'[inst] # instances[inst]
          => /\ \A other \in Instances \ {inst} : instances'[other] = instances[other]
             /\ instances'[inst] \in AlonePull(inst, instances[inst])]_vars

\* The evaluation pipeline has been pulled to its end between two pulls of
\* the training pipeline, whose shuffle buffer holds a record meanwhile.
C21_Witness ==
    /\ mode = "pair"
    /\ files = <<2, 3>>
    /\ batch_size = 2
    /\ instances["train"].pulls = 1
    /\ instances["train"].it.buf # {}
    /\ instances["eval"].state = "Exhausted"
    /\ Len(instances["eval"].batches) = 2
    /\ instances["eval"].it.buf = {}

====
